---- MODULE Spec2Model ----
(***************************************************************************)
(* Model of the codebase-index extension (codebase-index/index.ts):        *)
(* chunking, incremental indexing, embedding batches, the sql.js store and *)
(* cosine-similarity search, with the handlers interleaving at their       *)
(* await points on one JavaScript thread.                                  *)
(*                                                                         *)
(* Strings are sequences of one-character strings; "LF" stands for "\n"    *)
(* and "NUL" for a control character (code < 32, not 9, 10 or 13).  A file *)
(* content is kept as the result of content.split("\n"): a non-empty       *)
(* sequence of newline-free lines, which is a bijection with strings.      *)
(***************************************************************************)
EXTENDS Integers, Sequences, FiniteSets, TLC

(***************************************************************************)
(* Sizes.  The program's size constants are scaled down so that the        *)
(* chunking and batching boundaries are crossed by small files             *)
(* (index.ts:32-35 sets BATCH_SIZE = 10, MAX_FILE_SIZE = 100 * 1024,       *)
(* CHUNK_SIZE = 6000, MAX_EMBED_CHARS = 24000; isLikelyBinary looks at the *)
(* first 1000 characters and allows 10 control characters).                *)
(***************************************************************************)
CHUNK_SIZE == 4
BATCH_SIZE == 2
MAX_FILE_SIZE == 8
MAX_EMBED_CHARS == 12
BIN_PREFIX == 4
BIN_LIMIT == 1

\* Bounds of the exploration.
MaxRuns == 2
MaxEdits == 1

Paths == {"a.ts", "b.ts"}
PathOrder == <<"a.ts", "b.ts">>

\* a path with no file: no content has zero lines
Absent == <<>>
\* what `undefined` and SQL NULL are written as where a tuple is expected
Undefined == <<>>
\* db === null, and an open database with its rows
NoDb == [open |-> FALSE, rows |-> <<>>]
Db(rows) == [open |-> TRUE, rows |-> rows]
\* the backing file .pi/embeddings.db: missing, or holding exported rows
NoFile == [exists |-> FALSE, rows |-> <<>>]
File(rows) == [exists |-> TRUE, rows |-> rows]

----------------------------------------------------------------------------
(* Strings *)

RECURSIVE Rep(_, _)
Rep(c, n) == IF n <= 0 THEN <<>> ELSE <<c>> \o Rep(c, n - 1)

Take(s, n) == IF Len(s) > n THEN SubSeq(s, 1, n) ELSE s

\* lines.join("\n"): the string a content stands for
RECURSIVE JoinLines(_)
JoinLines(lines) ==
    IF Len(lines) = 0 THEN <<>>
    ELSE IF Len(lines) = 1 THEN lines[1]
    ELSE lines[1] \o <<"LF">> \o JoinLines(Tail(lines))

\* stat.size of an ASCII file
FileSize(content) == Len(JoinLines(content))

\* ordered list of the members of S, in PathOrder
RECURSIVE SortedPaths(_, _)
SortedPaths(S, k) ==
    IF k > Len(PathOrder) THEN <<>>
    ELSE (IF PathOrder[k] \in S THEN <<PathOrder[k]>> ELSE <<>>) \o SortedPaths(S, k + 1)

\* File contents used by the indexing model.
C_EMPTY == << <<>> >>
C_ONE == << <<"a">> >>
C_BIG == << <<"a", "a">>, <<"b", "b">>, <<"a", "b">> >>
C_BIN == << Rep("NUL", BIN_LIMIT + 1) >>
C_HUGE == << Rep("a", MAX_FILE_SIZE + 1) >>
Contents == {C_EMPTY, C_ONE, C_BIG, C_BIN, C_HUGE}

\* crypto.createHash("sha256").update(content).digest("hex").slice(0, 16),
\* taken as collision free
Hash(content) == <<"sha256", JoinLines(content)>>

IsControl(c) == c = "NUL"

CountControl(s) == Cardinality({k \in 1..Len(s) : IsControl(s[k])})

isLikelyBinary(content) == CountControl(Take(JoinLines(content), BIN_PREFIX)) > BIN_LIMIT

----------------------------------------------------------------------------
(* chunkFile *)

\* the end line is one too far
ChunkEndOff(path, content, hash, chunkIndex, startLine, endLine) ==
    [path |-> path, content |-> content, hash |-> hash, chunkIndex |-> chunkIndex,
     startLine |-> startLine, endLine |-> endLine + 1]

Chunk(path, content, hash, chunkIndex, startLine, endLine) ==
    [path |-> path, content |-> content, hash |-> hash, chunkIndex |-> chunkIndex,
     startLine |-> startLine, endLine |-> endLine]

\* currentChunk + (currentChunk ? "\n" : "") + line
JoinChunk(currentChunk, line) ==
    currentChunk \o (IF currentChunk # <<>> THEN <<"LF">> ELSE <<>>) \o line

\* the line is taken whole
KeepLine(line) == line

\* if (line.length > CHUNK_SIZE) line = line.slice(0, CHUNK_SIZE)
TruncateLine(line) == Take(line, CHUNK_SIZE)

\* the for loop of chunkFile; i is the 0-based loop index, st the loop's locals
RECURSIVE ChunkLoop(_, _, _, _, _)
ChunkLoop(path, hash, lines, i, st) ==
    IF i >= Len(lines) THEN st
    ELSE
        LET line == TruncateLine(lines[i + 1])
            newChunk == JoinChunk(st.currentChunk, line)
        IN  IF Len(newChunk) > CHUNK_SIZE
            THEN ChunkLoop(path, hash, lines, i + 1,
                    [chunks |-> IF st.currentChunk # <<>>
                                THEN Append(st.chunks,
                                        Chunk(path, st.currentChunk, hash, st.chunkIndex,
                                              st.startLine, i))
                                ELSE st.chunks,
                     chunkIndex |-> IF st.currentChunk # <<>>
                                    THEN st.chunkIndex + 1 ELSE st.chunkIndex,
                     currentChunk |-> line,
                     startLine |-> i + 1])
            ELSE ChunkLoop(path, hash, lines, i + 1, [st EXCEPT !.currentChunk = newChunk])

chunkFile(filePath, content) ==
    LET hash == Hash(content)
        st == ChunkLoop(filePath, hash, content, 0,
                 [chunks |-> <<>>, chunkIndex |-> 0, currentChunk |-> <<>>, startLine |-> 1])
    IN  IF st.currentChunk # <<>>
        THEN Append(st.chunks,
                Chunk(filePath, st.currentChunk, hash, st.chunkIndex, st.startLine,
                      Len(content)))
        ELSE st.chunks

----------------------------------------------------------------------------
(* The store: the rows of table chunks in rowid order, or NoDb when the    *)
(* variable db is null.                                                    *)

Row(chunk, embedding) ==
    [path |-> chunk.path, hash |-> chunk.hash, chunkIndex |-> chunk.chunkIndex,
     startLine |-> chunk.startLine, endLine |-> chunk.endLine,
     content |-> chunk.content, embedding |-> embedding]

RowsOf(rows, p) == LET Keep(r) == r.path = p IN SelectSeq(rows, Keep)

\* DELETE FROM chunks WHERE path = ?
\* the WHERE clause left out
DeleteAll(rows, p) == <<>>

DeleteRows(rows, p) == LET Keep(r) == r.path # p IN SelectSeq(rows, Keep)

\* the values SELECT hash FROM chunks WHERE path = ? LIMIT 1 may return:
\* without ORDER BY any row of the path may come first
StoredHashes(rows, p) == {rows[k].hash : k \in {j \in 1..Len(rows) : rows[j].path = p}}

\* UNIQUE(path, chunk_index)
Collides(rows, row) ==
    \E k \in 1..Len(rows) : rows[k].path = row.path /\ rows[k].chunkIndex = row.chunkIndex

\* initDb: the database read from the backing file, or a fresh empty one
initDb(file) == Db(IF file.exists THEN file.rows ELSE <<>>)

\* Math.fround on each component (new Float32Array(embedding)); integers
\* below 2^24 are kept exactly, larger ones lose their low bits
Fround(x) ==
    IF x > -16777216 /\ x < 16777216 THEN x
    ELSE IF x > 0 THEN (x \div 2) * 2 ELSE -(((-x) \div 2) * 2)

\* the four bytes one component takes in the buffer, low byte first
F32Bytes(x) ==
    LET u == Fround(x) + 16777216
    IN  <<u % 256, (u \div 256) % 256, (u \div 65536) % 256, u \div 16777216>>

F32Value(b) == b[1] + 256 * b[2] + 65536 * b[3] + 16777216 * b[4] - 16777216

RECURSIVE Concat(_)
Concat(seqs) == IF seqs = <<>> THEN <<>> ELSE Head(seqs) \o Concat(Tail(seqs))

\* Buffer.from(new Float32Array(embedding).buffer).toString("base64"), kept as
\* the bytes of the buffer; new Float32Array(undefined) is the empty array
embeddingToBase64(embedding) ==
    IF embedding = Undefined THEN <<>>
    ELSE Concat([k \in 1..Len(embedding) |-> F32Bytes(embedding[k])])

\* Array.from(new Float32Array(buffer, offset, length / 4))
base64ToEmbedding(stored) ==
    [k \in 1..(Len(stored) \div 4) |-> F32Value(SubSeq(stored, 4 * k - 3, 4 * k))]

----------------------------------------------------------------------------
(* The embedding provider *)

\* text sent for a chunk: `File: ${c.path}\n\n${c.content}`, capped
ChunkText(c) == Take(<<"File: ", c.path, "LF", "LF">> \o c.content, MAX_EMBED_CHARS)

\* embed() caps every text again before the request
SafeText(t) == Take(t, MAX_EMBED_CHARS)

\* the provider, as one deterministic embedder: a non-zero integer vector
\* that depends on the text
EmbedModel(t) ==
    <<Len(t), 1 + Cardinality({k \in 1..Len(t) : t[k] = "a"})>>

----------------------------------------------------------------------------
(* Similarity search *)

\* cosineSimilarity(a, b) kept exact: score = dot / (sqrt(normA) * sqrt(normB)).
\* The loop runs over a's indices; a missing b[i] makes every sum NaN, and a
\* zero norm makes the quotient NaN.
RECURSIVE SumTo(_, _)
SumTo(f, n) == IF n = 0 THEN 0 ELSE f[n] + SumTo(f, n - 1)

cosineSimilarity(a, b) ==
    IF Len(b) < Len(a)
    THEN [nan |-> TRUE, dot |-> 0, normA |-> 0, normB |-> 0]
    ELSE LET dot == SumTo([k \in 1..Len(a) |-> a[k] * b[k]], Len(a))
             na == SumTo([k \in 1..Len(a) |-> a[k] * a[k]], Len(a))
             nb == SumTo([k \in 1..Len(a) |-> b[k] * b[k]], Len(a))
         IN  [nan |-> na = 0 \/ nb = 0, dot |-> dot, normA |-> na, normB |-> nb]

\* x.score < y.score for two scores against the same query (same normA);
\* false when either is NaN
ScoreLess(x, y) ==
    /\ ~x.nan
    /\ ~y.nan
    /\ IF x.dot >= 0 /\ y.dot >= 0 THEN x.dot * x.dot * y.normB < y.dot * y.dot * x.normB
       ELSE IF x.dot < 0 /\ y.dot < 0 THEN x.dot * x.dot * y.normB > y.dot * y.dot * x.normB
       ELSE x.dot < 0

\* results.sort((a, b) => b.score - a.score): a stable sort, descending; a
\* comparator value of NaN counts as 0
RECURSIVE InsertSorted(_, _)
InsertSorted(sorted, r) ==
    IF sorted = <<>> THEN <<r>>
    ELSE IF ScoreLess(Head(sorted).score, r.score) THEN <<r>> \o sorted
    ELSE <<Head(sorted)>> \o InsertSorted(Tail(sorted), r)

RECURSIVE SortByScore(_)
SortByScore(results) ==
    IF results = <<>> THEN <<>>
    ELSE InsertSorted(SortByScore(SubSeq(results, 1, Len(results) - 1)),
                      results[Len(results)])

\* Array.prototype.slice(0, limit) for an integer limit: a negative limit
\* counts from the end
SliceTo(s, limit) ==
    LET end == IF limit < 0 THEN Len(s) + limit ELSE limit
    IN  IF end <= 0 THEN <<>> ELSE IF end >= Len(s) THEN s ELSE SubSeq(s, 1, end)

SearchResult(row, queryEmbedding) ==
    [path |-> row.path, content |-> row.content,
     score |-> cosineSimilarity(queryEmbedding, base64ToEmbedding(row.embedding)),
     startLine |-> row.startLine, endLine |-> row.endLine]

\* the rows of SELECT ... FROM chunks WHERE embedding IS NOT NULL; every row
\* the program writes has a (possibly empty) embedding string
EmbeddedRows(rows) == rows

\* the guard after the SELECT: no data when the query returned no row
\* the guard left out
NoRowsUnchecked(rows) == FALSE

NoRows(rows) == Len(rows) = 0

\* the result kinds: null, a list, or a TypeError thrown on the way
NoData == [kind |-> "null", list |-> <<>>]
Thrown == [kind |-> "throw", list |-> <<>>]
ResultList(l) == [kind |-> "list", list |-> l]

\* the filter keeps nothing out
ExcludesNothing(row, excludePath) == FALSE

\* the negation of the filter: excludePath is set and equals the row's path
Excludes(row, excludePath) == excludePath # Undefined /\ <<row.path>> = excludePath

searchByEmbedding(database, queryEmbedding, limit, excludePath) ==
    IF ~database.open THEN NoData
    ELSE LET result == EmbeddedRows(database.rows)
         IN  IF NoRows(result) THEN NoData
             ELSE LET Keep(row) == ~Excludes(row, excludePath)
                      kept == SelectSeq(result, Keep)
                      results == [k \in 1..Len(kept) |-> SearchResult(kept[k], queryEmbedding)]
                  IN  \* a.length of an undefined query embedding throws in map
                      IF queryEmbedding = Undefined /\ kept # <<>> THEN Thrown
                      ELSE ResultList(SliceTo(SortByScore(results), limit))

----------------------------------------------------------------------------
(* The index command: the synchronous collection loop *)

\* one iteration of `for (const file of files)`; st holds the loop's locals,
\* the database rows and whether an exception left the loop; sel[file] is the
\* value the SELECT ... LIMIT 1 of this file returns
\* the comparison never succeeds
HashNeverEqual(existing, hash) == FALSE

HashUnchanged(existing, hash) == existing = hash

CollectFile(file, tree, database, sel, st) ==
    IF st.threw THEN st
    ELSE IF tree[file] = Absent THEN [st EXCEPT !.threw = TRUE]      \* statSync throws
    ELSE IF FileSize(tree[file]) > MAX_FILE_SIZE THEN [st EXCEPT !.skipped = @ + 1]
    ELSE IF isLikelyBinary(tree[file]) THEN [st EXCEPT !.skipped = @ + 1]
    ELSE IF ~database.open THEN [st EXCEPT !.threw = TRUE]            \* db.exec on null
    ELSE IF HashUnchanged(sel[file], Hash(tree[file])) THEN [st EXCEPT !.skipped = @ + 1]
    ELSE [st EXCEPT !.rows = DeleteRows(@, file),
                    !.allChunks = @ \o chunkFile(file, tree[file]),
                    !.indexed = @ + 1]

RECURSIVE CollectLoop(_, _, _, _, _, _)
CollectLoop(list, k, tree, database, sel, st) ==
    IF k > Len(list) THEN st
    ELSE CollectLoop(list, k + 1, tree, database, sel,
                     CollectFile(list[k], tree, database, sel, st))

\* the values the SELECTs of one loop may return, one per path
Selections(rows) ==
    {sel \in [Paths -> {Undefined} \cup {rows[k].hash : k \in 1..Len(rows)}] :
        \A p \in Paths : IF StoredHashes(rows, p) = {} THEN sel[p] = Undefined
                         ELSE sel[p] \in StoredHashes(rows, p)}

----------------------------------------------------------------------------
(* The index command: one batch *)

\* allChunks.slice(i, i + BATCH_SIZE)
Batch(allChunks, i) ==
    SubSeq(allChunks, i + 1, IF i + BATCH_SIZE < Len(allChunks) THEN i + BATCH_SIZE
                             ELSE Len(allChunks))

BatchTexts(batch) == [k \in 1..Len(batch) |-> ChunkText(batch[k])]

\* embed(texts) when the request succeeds: one vector per text
EmbedOk(texts) == [k \in 1..Len(texts) |-> EmbedModel(SafeText(texts[k]))]

\* response.data of a request that succeeded: one item per text, and the items
\* at the positions in drop carry no embedding (the field is optional)
ResponseData(texts, drop) ==
    [k \in 1..Len(texts) |-> IF k \in drop THEN Undefined ELSE EmbedModel(SafeText(texts[k]))]

\* .filter((e) => e !== undefined)
DropUndefined(data) == LET Defined(e) == e # Undefined IN SelectSeq(data, Defined)

\* embed(texts) when the request succeeds
embed(texts, drop) == DropUndefined(ResponseData(texts, drop))

\* what the await of embed may bring: the request fails, or succeeds with
\* every embedding, or succeeds with the first item carrying none
Replies ==
    {[ok |-> FALSE, drop |-> {}], [ok |-> TRUE, drop |-> {}], [ok |-> TRUE, drop |-> {1}]}

\* the INSERT loop over one batch: st.rows are the rows so far, st.threw is set
\* by the first db.run that throws (db is null, or the UNIQUE constraint fails);
\* rows already inserted stay
RECURSIVE InsertLoop(_, _, _, _, _)
InsertLoop(open, batch, embeddings, j, st) ==
    IF j > Len(batch) \/ st.threw THEN st
    ELSE LET embeddingB64 == embeddingToBase64(IF j <= Len(embeddings) THEN embeddings[j]
                                               ELSE Undefined)
             row == Row(batch[j], embeddingB64)
         IN  IF ~open \/ Collides(st.rows, row)
             THEN [st EXCEPT !.threw = TRUE]
             ELSE InsertLoop(open, batch, embeddings, j + 1,
                             [st EXCEPT !.rows = Append(@, row)])

\* saveDb(cwd, true): nothing when db is null, else VACUUM and write the file
saveDb(database, file) == IF ~database.open THEN file ELSE File(database.rows)

----------------------------------------------------------------------------
(* State *)

VARIABLES
    fs,                  \* the project tree: path -> content, or Absent
    apiKey,              \* process.env.MISTRAL_API_KEY is set
    SQL,                 \* the sql.js module is loaded (SQL !== null)
    db,                  \* the variable db
    disk,                \* the backing file .pi/embeddings.db
    mistral,             \* the variable mistral is set
    indexingInProgress,  \* the in-flight flag
    active,              \* index handler activations between the guard and finally
    run,                 \* locals of the index handler activation
    status,              \* position of the index-status handler
    tool,                \* position and arguments of a tool call
    ev,                  \* what the last step did, as its caller sees it
    hist,                \* the index runs that have ended, oldest first
    cleared,             \* the store was cleared or replaced since the last run ended
    used,                \* the kinds of request made so far, besides index
    edits,               \* changes made to the project tree so far
    nu                   \* the nushell tool call: its buffers, temp file and result

vars == <<fs, apiKey, SQL, db, disk, mistral, indexingInProgress, active, run,
          status, tool, ev, hist, cleared, used, edits, nu>>

\* the locals of one execute of the nushell tool; out is everything the
\* process wrote, tempFile what was written to the temp file
IdleNu ==
    [pc |-> "idle", chunks |-> <<>>, chunksBytes |-> 0, totalBytes |-> 0,
     tempFilePath |-> Undefined, tempFile |-> <<>>, out |-> <<>>, events |-> 0,
     result |-> <<>>]

IdleRun ==
    [pc |-> "idle", files |-> <<>>, indexed |-> 0, skipped |-> 0, allChunks |-> <<>>,
     i |-> 0,
     errors |-> 0,       \* "Embedding error" notifications
     calls |-> 0,        \* embedding requests sent
     sent |-> {},        \* texts sent to the provider
     embedFailed |-> {}, \* start index of each batch whose request failed
     insertFailed |-> {},\* start index of each batch whose INSERT threw
     scanned |-> FALSE,  \* getFilesToIndex has run
     fsAt |-> [p \in Paths |-> Absent],  \* the tree as the collection loop read it
     rowsAt |-> <<>>,    \* the rows the collection loop started from
     clearedBefore |-> FALSE, \* the store was cleared between the last run and this one
     swapped |-> FALSE,  \* the store was cleared or replaced during the run
     clearedAt |-> ""]   \* where the run was suspended when index-clear ran

IdleTool ==
    [pc |-> "idle", kind |-> "", text |-> <<>>, requested |-> 0, limit |-> 0,
     exclude |-> Undefined, aborted |-> FALSE]

Event(op, res, val) == [op |-> op, res |-> res, val |-> val]

\* rows a previous session may have left in the backing file
OldRows ==
    LET c == chunkFile("a.ts", C_ONE)
    IN  [k \in 1..Len(c) |-> Row(c[k], embeddingToBase64(EmbedModel(ChunkText(c[k]))))]

\* the project trees a behaviour may start from
InitTrees ==
    {t \in [Paths -> Contents \cup {Absent}] : t["a.ts"] \in {C_ONE, C_BIG}}

Init ==
    /\ fs \in InitTrees
    /\ apiKey \in BOOLEAN
    /\ SQL = FALSE
    /\ db = NoDb
    /\ disk \in {NoFile, File(OldRows)}
    /\ mistral = FALSE
    /\ indexingInProgress = FALSE
    /\ active = 0
    /\ run = IdleRun
    /\ status = "idle"
    /\ tool = IdleTool
    /\ ev = Event("init", "", <<>>)
    /\ hist = <<>>
    /\ cleared = FALSE
    /\ used = {}
    /\ edits = 0
    /\ nu = IdleNu

----------------------------------------------------------------------------
(* The index command *)

\* if (indexingInProgress) { notify(...); return; }
\* the guard left out
InFlightGuardOff == FALSE

InFlightGuard == indexingInProgress

\* initMistral throws: no client yet and no key in the environment
\* the key is not looked at
CredentialUnchecked == FALSE

MissingCredential == ~mistral /\ ~apiKey

\* finally { indexingInProgress = false; }
\* the flag is left set
FlagLeftSet == TRUE

FlagAfterFinally == FALSE

\* catch (or the final notify) and finally: the run ends
EndRun(op, outcome, r, act) ==
    /\ hist' = Append(hist, [outcome |-> outcome, run |-> r])
    /\ cleared' = FALSE
    /\ run' = IdleRun
    /\ indexingInProgress' = FlagAfterFinally
    /\ active' = act - 1
    /\ ev' = Event(op, outcome, <<>>)

\* from `if (!mistral) mistral = initMistral()` to the await of getFilesToIndex
IndexProceed(op, r, act) ==
    IF MissingCredential
    THEN /\ EndRun(op, "failed", r, act)
         /\ UNCHANGED mistral
    ELSE /\ mistral' = TRUE
         /\ run' = [r EXCEPT !.pc = "scanning"]
         /\ indexingInProgress' = TRUE
         /\ active' = act
         /\ ev' = Event(op, "suspended", <<>>)
         /\ UNCHANGED <<hist, cleared>>

IndexRejected ==
    /\ InFlightGuard
    /\ ev' = Event("index", "rejected", <<>>)
    /\ UNCHANGED <<nu, used, fs, apiKey, SQL, db, disk, mistral, indexingInProgress, active, run,
                   status, tool, hist, cleared, edits>>

IndexStart ==
    /\ ~InFlightGuard
    /\ Len(hist) + active < MaxRuns
    /\ Len(hist) + active >= 1 => used = {}
    /\ LET r == [IdleRun EXCEPT !.clearedBefore = cleared]
       IN  IF db.open
           THEN /\ IndexProceed("index", r, active + 1)
                /\ UNCHANGED <<db, SQL>>
           ELSE IF SQL
           THEN /\ db' = initDb(disk)
                /\ IndexProceed("index", r, active + 1)
                /\ UNCHANGED SQL
           ELSE /\ run' = [r EXCEPT !.pc = "opening"]
                /\ indexingInProgress' = TRUE
                /\ active' = active + 1
                /\ ev' = Event("index", "suspended", <<>>)
                /\ UNCHANGED <<db, SQL, mistral, hist, cleared>>
    /\ UNCHANGED <<nu, used, fs, apiKey, disk, status, tool, edits>>

\* initDb resumes after the await of initSqlJs: db = the database just read
IndexOpened ==
    /\ run.pc = "opening"
    /\ SQL' = TRUE
    /\ db' = initDb(disk)
    /\ IndexProceed("index-resume", [run EXCEPT !.swapped = @ \/ db.open], active)
    /\ UNCHANGED <<nu, used, fs, apiKey, disk, status, tool, edits>>

\* getFilesToIndex resolves with the files the globs saw
IndexScan ==
    /\ run.pc = "scanning"
    /\ run' = [run EXCEPT !.pc = "collect", !.scanned = TRUE,
                          !.files = SortedPaths({p \in Paths : fs[p] # Absent}, 1)]
    /\ ev' = Event("index-resume", "suspended", <<>>)
    /\ UNCHANGED <<nu, used, fs, apiKey, SQL, db, disk, mistral, indexingInProgress, active,
                   status, tool, hist, cleared, edits>>

\* the request of the batch at index i goes out (embed is awaited)
SendBatch(r) ==
    [r EXCEPT !.pc = "embedding", !.calls = @ + 1,
              !.sent = @ \cup {SafeText(BatchTexts(Batch(r.allChunks, r.i))[k]) :
                                  k \in 1..Len(Batch(r.allChunks, r.i))}]

\* the collection loop, then the first request or, with nothing to embed,
\* the save and the summary
IndexCollect ==
    /\ run.pc = "collect"
    /\ \E sel \in Selections(db.rows) :
        \E st \in {CollectLoop(run.files, 1, fs, db, sel,
                      [rows |-> db.rows, indexed |-> 0, skipped |-> 0,
                       allChunks |-> <<>>, threw |-> FALSE])} :
        \E r \in {[run EXCEPT !.indexed = st.indexed, !.skipped = st.skipped,
                             !.allChunks = st.allChunks, !.fsAt = fs,
                             !.rowsAt = db.rows]} :
            /\ db' = IF db.open THEN Db(st.rows) ELSE db
            /\ IF st.threw
               THEN /\ EndRun("index-resume", "failed", r, active)
                    /\ UNCHANGED disk
               ELSE IF st.allChunks = <<>>
               THEN /\ disk' = saveDb(db', disk)
                    /\ EndRun("index-resume", "done", r, active)
               ELSE /\ run' = SendBatch(r)
                    /\ ev' = Event("index-resume", "suspended", <<>>)
                    /\ UNCHANGED <<disk, hist, indexingInProgress, active, cleared>>
    /\ UNCHANGED <<nu, used, fs, apiKey, SQL, mistral, status, tool, edits>>

\* catch (err) { notify("Embedding error") }: the error of a batch is swallowed
\* and the for loop goes on
\* the error leaves the loop instead
BatchRethrow(threw) == ~threw

BatchCatch(threw) == TRUE

\* the await of embed ends (reply.ok: vectors, else the request failed), the INSERT
\* loop or the catch runs, then the next request or the save and the summary
IndexBatch(reply) ==
    /\ run.pc = "embedding"
    /\ LET batch == Batch(run.allChunks, run.i)
           st == IF reply.ok
                 THEN InsertLoop(db.open, batch, embed(BatchTexts(batch), reply.drop), 1,
                                 [rows |-> db.rows, threw |-> FALSE])
                 ELSE [rows |-> db.rows, threw |-> TRUE]
           r == [run EXCEPT !.i = @ + BATCH_SIZE,
                            !.errors = IF st.threw THEN @ + 1 ELSE @,
                            !.embedFailed = IF reply.ok THEN @ ELSE @ \cup {run.i},
                            !.insertFailed = IF reply.ok /\ st.threw THEN @ \cup {run.i} ELSE @]
       IN  /\ db' = IF db.open THEN Db(st.rows) ELSE db
           /\ IF st.threw /\ ~BatchCatch(st.threw)
              THEN /\ EndRun("index-resume", "failed", r, active)
                   /\ UNCHANGED disk
              ELSE IF r.i < Len(r.allChunks)
              THEN /\ run' = SendBatch(r)
                   /\ ev' = Event("index-resume", "suspended", <<>>)
                   /\ UNCHANGED <<disk, hist, indexingInProgress, active, cleared>>
              ELSE /\ disk' = saveDb(db', disk)
                   /\ EndRun("index-resume", "done", r, active)
    /\ UNCHANGED <<nu, used, fs, apiKey, SQL, mistral, status, tool, edits>>

\* the final notify: `Indexed ${indexed} files (${skipped} skipped,
\* ${allChunks.length} chunks)`
Summary(r) == [indexed |-> r.indexed, skipped |-> r.skipped, chunks |-> Len(r.allChunks)]

----------------------------------------------------------------------------
(* index-status and index-clear *)

\* COUNT(DISTINCT path), COUNT(*), SUM(LENGTH(content)); a NULL sum reads as 0
Stats(rows) ==
    [files |-> Cardinality({rows[k].path : k \in 1..Len(rows)}),
     chunks |-> Len(rows),
     totalSize |-> SumTo([k \in 1..Len(rows) |-> Len(rows[k].content)], Len(rows))]

\* bookkeeping: the store was cleared, or an open one was replaced
Replaced(yes) ==
    IF ~yes THEN UNCHANGED <<run, cleared>>
    ELSE IF run.pc = "idle" THEN cleared' = TRUE /\ UNCHANGED run
    ELSE run' = [run EXCEPT !.swapped = TRUE] /\ UNCHANGED cleared

\* Exploration: a behaviour either interleaves status, clear and tool requests
\* (each kind once) with one index run, or runs the index up to MaxRuns times
\* while the project tree is edited up to MaxEdits times.
MayRequest(kind) == kind \notin used /\ Len(hist) + active <= 1 /\ edits = 0

StatusCmd ==
    /\ status = "idle"
    /\ MayRequest("status")
    /\ used' = used \cup {"status"}
    /\ IF db.open
       THEN /\ ev' = Event("status", "ok", Stats(db.rows))
            /\ UNCHANGED <<db, status>>
       ELSE IF SQL
       THEN /\ db' = initDb(disk)
            /\ ev' = Event("status", "ok", Stats(db'.rows))
            /\ UNCHANGED status
       ELSE /\ status' = "opening"
            /\ ev' = Event("status", "suspended", <<>>)
            /\ UNCHANGED db
    /\ UNCHANGED <<nu, fs, apiKey, SQL, disk, mistral, indexingInProgress, active, run,
                   tool, hist, cleared, edits>>

StatusOpened ==
    /\ status = "opening"
    /\ status' = "idle"
    /\ SQL' = TRUE
    /\ db' = initDb(disk)
    /\ Replaced(db.open)
    /\ ev' = Event("status", "ok", Stats(db'.rows))
    /\ UNCHANGED <<nu, used, fs, apiKey, disk, mistral, indexingInProgress, active, tool,
                   hist, edits>>

\* db.close(); db = null; unlink the backing file
ClearCmd ==
    /\ MayRequest("clear")
    /\ used' = used \cup {"clear"}
    /\ db' = NoDb
    /\ disk' = NoFile
    /\ IF run.pc = "idle" THEN cleared' = TRUE /\ UNCHANGED run
       ELSE run' = [run EXCEPT !.swapped = TRUE, !.clearedAt = run.pc] /\ UNCHANGED cleared
    /\ ev' = Event("clear", "ok", <<>>)
    /\ UNCHANGED <<nu, fs, apiKey, SQL, mistral, indexingInProgress, active, status,
                   tool, hist, edits>>

----------------------------------------------------------------------------
(* The tools semantic_search and find_similar *)

Queries == {<<"a">>}
Snippets == {<<"b">>}
ToolLimits == {1}

\* params.limit || d
LimitOr(limit, d) == IF limit = 0 THEN d ELSE limit

\* from `if (!mistral) mistral = initMistral()` to the await of embed
ToolProceed(t) ==
    IF MissingCredential
    THEN /\ tool' = IdleTool
         /\ ev' = Event(t.kind, "error", <<>>)
         /\ UNCHANGED mistral
    ELSE /\ mistral' = TRUE
         /\ tool' = [t EXCEPT !.pc = "embedding"]
         /\ ev' = Event(t.kind, "suspended", <<>>)

\* from `if (!db) db = await initDb(ctx.cwd)` on
ToolOpen(t) ==
    IF db.open
    THEN /\ ToolProceed(t)
         /\ UNCHANGED <<db, SQL>>
    ELSE IF SQL
    THEN /\ db' = initDb(disk)
         /\ ToolProceed(t)
         /\ UNCHANGED SQL
    ELSE /\ tool' = [t EXCEPT !.pc = "opening"]
         /\ ev' = Event(t.kind, "suspended", <<>>)
         /\ UNCHANGED <<db, SQL, mistral>>

SearchCall(query, limit) ==
    /\ tool.pc = "idle"
    /\ MayRequest("tool")
    /\ used' = used \cup {"tool"}
    /\ ToolOpen([pc |-> "idle", kind |-> "search", text |-> query, requested |-> limit,
                 limit |-> LimitOr(limit, 10), exclude |-> Undefined,
                 aborted |-> FALSE])
    /\ UNCHANGED <<nu, fs, apiKey, disk, indexingInProgress, active, run, status, hist,
                   cleared, edits>>

\* the check left out
NoTextUnchecked(text) == FALSE

\* if (!text): neither parameter given, or an empty string
NoText(text) == text = <<>>

\* file: <<path>> or Undefined; code: a snippet or Undefined
SimilarCall(file, code, limit) ==
    /\ tool.pc = "idle"
    /\ MayRequest("tool")
    /\ used' = used \cup {"tool"}
    /\ IF file # Undefined /\ fs[file[1]] = Absent
       THEN \* readFileSync throws
            /\ ev' = Event("similar", "error", [file |-> file, code |-> code])
            /\ UNCHANGED <<db, SQL, mistral, tool>>
       ELSE LET text == IF file # Undefined THEN JoinLines(fs[file[1]]) ELSE code
            IN  IF NoText(text)
                THEN /\ ev' = Event("similar", "usage", [file |-> file, code |-> code])
                     /\ UNCHANGED <<db, SQL, mistral, tool>>
                ELSE ToolOpen([pc |-> "idle", kind |-> "similar",
                               text |-> Take(text, CHUNK_SIZE), requested |-> limit,
                               limit |-> LimitOr(limit, 5), exclude |-> file,
                               aborted |-> FALSE])
    /\ UNCHANGED <<nu, fs, apiKey, disk, indexingInProgress, active, run, status, hist,
                   cleared, edits>>

ToolOpened ==
    /\ tool.pc = "opening"
    /\ SQL' = TRUE
    /\ db' = initDb(disk)
    /\ Replaced(db.open)
    /\ ToolProceed(tool)
    /\ UNCHANGED <<nu, used, fs, apiKey, disk, indexingInProgress, active, status, hist, edits>>

\* the await of embed ends; on success the search runs on the store as it is now
ToolReturn(reply) ==
    /\ tool.pc = "embedding"
    /\ tool' = IdleTool
    /\ IF reply.ok
       THEN LET embeddings == embed(<<tool.text>>, reply.drop)
                \* const [queryEmbedding] = ...: undefined when the list is empty
                queryEmbedding == IF embeddings = <<>> THEN Undefined ELSE embeddings[1]
                results == searchByEmbedding(db, queryEmbedding, tool.limit, tool.exclude)
            IN  ev' = Event(tool.kind,
                            IF results.kind = "throw" THEN "error" ELSE results.kind,
                            [requested |-> tool.requested, exclude |-> tool.exclude,
                             list |-> results.list])
       ELSE ev' = Event(tool.kind, "error", <<>>)
    /\ UNCHANGED <<nu, used, fs, apiKey, SQL, db, disk, mistral, indexingInProgress, active, run,
                   status, hist, cleared, edits>>

\* the caller's AbortSignal (the parameter _signal of execute) fires while the
\* tool call is suspended; execute never reads it
AbortSignal ==
    /\ tool.pc \in {"opening", "embedding"}
    /\ ~tool.aborted
    /\ tool' = [tool EXCEPT !.aborted = TRUE]
    /\ ev' = Event("abort", "ok", <<>>)
    /\ UNCHANGED <<nu, used, fs, apiKey, SQL, db, disk, mistral, indexingInProgress, active, run,
                   status, hist, cleared, edits>>

----------------------------------------------------------------------------
(* The project tree changes under the program *)

EditFile(p, c) ==
    /\ edits < MaxEdits
    /\ used = {}
    /\ edits' = edits + 1
    /\ c # fs[p]
    /\ fs' = [fs EXCEPT ![p] = c]
    /\ ev' = Event("edit", "ok", <<>>)
    /\ UNCHANGED <<nu, used, apiKey, SQL, db, disk, mistral, indexingInProgress, active, run,
                   status, tool, hist, cleared>>

----------------------------------------------------------------------------

Next ==
    \/ IndexRejected
    \/ IndexStart
    \/ IndexOpened
    \/ IndexScan
    \/ IndexCollect
    \/ \E reply \in Replies : IndexBatch(reply)
    \/ StatusCmd
    \/ StatusOpened
    \/ ClearCmd
    \/ \E q \in Queries, l \in ToolLimits : SearchCall(q, l)
    \/ \E f \in {Undefined, <<"a.ts">>}, c \in {Undefined} \cup Snippets,
          l \in ToolLimits : SimilarCall(f, c, l)
    \/ ToolOpened
    \/ \E reply \in Replies : ToolReturn(reply)
    \/ \E p \in Paths, c \in Contents \cup {Absent} : EditFile(p, c)

Spec == Init /\ [][Next]_vars

\* Every await of the index handler settles: sql.js loads, the scan resolves
\* and each embedding request returns or fails, and the continuation then runs.
IndexResumes ==
    \/ IndexOpened
    \/ IndexScan
    \/ IndexCollect
    \/ \E reply \in Replies : IndexBatch(reply)

\* The index command alone, with index-clear and edits of the tree around it
NextRuns ==
    \/ IndexRejected
    \/ IndexStart
    \/ IndexResumes
    \/ ClearCmd
    \/ \E p \in Paths, c \in Contents \cup {Absent} : EditFile(p, c)

SpecFair == Init /\ [][NextRuns]_vars /\ WF_vars(IndexResumes)

----------------------------------------------------------------------------
(* The tools over bounded stores: any store of up to MaxRows rows, any      *)
(* requested limit, with index-clear as the only other handler.             *)

MaxRows == 3

\* embeddings a provider may have returned for stored chunks
StoreVectors == {<<1, 0>>, <<0, 1>>, <<-1, -1>>}

StoreRow(p, v, k) ==
    Row(Chunk(p, <<"a">>, Hash(C_ONE), k - 1, 1, 1), embeddingToBase64(v))

SearchStores ==
    UNION {{[k \in 1..n |-> StoreRow(f[k][1], f[k][2], k)] :
               f \in [1..n -> Paths \X StoreVectors]} : n \in 0..MaxRows}

\* params.limit as the caller gives it; 0 also stands for an absent limit
SearchLimits == (-1)..(MaxRows + 1)

InitSearch ==
    /\ fs = [p \in Paths |-> IF p = "a.ts" THEN C_ONE ELSE Absent]
    /\ apiKey = TRUE
    /\ SQL = TRUE
    /\ db \in {NoDb} \cup {Db(rows) : rows \in SearchStores}
    /\ disk = IF db.open THEN File(db.rows) ELSE NoFile
    /\ mistral = TRUE
    /\ indexingInProgress = FALSE
    /\ active = 0
    /\ run = IdleRun
    /\ status = "idle"
    /\ tool = IdleTool
    /\ ev = Event("init", "", <<>>)
    /\ hist = <<>>
    /\ cleared = FALSE
    /\ used = {}
    /\ edits = 0
    /\ nu = IdleNu

NextSearch ==
    \/ \E q \in Queries, l \in SearchLimits : SearchCall(q, l)
    \/ \E f \in {Undefined, <<"a.ts">>}, c \in {Undefined} \cup Snippets,
          l \in SearchLimits : SimilarCall(f, c, l)
    \/ \E reply \in Replies : ToolReturn(reply)
    \/ ClearCmd
    \/ AbortSignal

SpecSearch == InitSearch /\ [][NextSearch]_vars

----------------------------------------------------------------------------
(* embed on its own: any list of up to MaxTexts texts, any reply.            *)

MaxTexts == 3

EmbedInputs == {<<"a">>, <<"b", "a">>, Rep("a", MAX_EMBED_CHARS + 1)}

TextLists == UNION {[1..n -> EmbedInputs] : n \in 0..MaxTexts}

InitEmbed ==
    /\ fs = [p \in Paths |-> Absent]
    /\ apiKey = TRUE
    /\ SQL = FALSE
    /\ db = NoDb
    /\ disk = NoFile
    /\ mistral = TRUE
    /\ indexingInProgress = FALSE
    /\ active = 0
    /\ run = IdleRun
    /\ status = "idle"
    /\ tool = IdleTool
    /\ \E texts \in TextLists, drop \in SUBSET (1..MaxTexts), ok \in BOOLEAN :
          /\ drop \subseteq 1..Len(texts)
          /\ ok \/ drop = {}
          /\ ev = Event("embed", "pending", [texts |-> texts, ok |-> ok, drop |-> drop])
    /\ hist = <<>>
    /\ cleared = FALSE
    /\ used = {}
    /\ edits = 0
    /\ nu = IdleNu

\* the await inside embed ends: the call throws, or returns the filtered list
EmbedReturn ==
    /\ ev.op = "embed"
    /\ ev.res = "pending"
    /\ ev' = IF ev.val.ok
             THEN Event("embed", "ok", [texts |-> ev.val.texts,
                                        list |-> embed(ev.val.texts, ev.val.drop)])
             ELSE Event("embed", "throw", [texts |-> ev.val.texts, list |-> <<>>])
    /\ UNCHANGED <<nu, fs, apiKey, SQL, db, disk, mistral, indexingInProgress, active, run,
                   status, tool, hist, cleared, used, edits>>

NextEmbed == EmbedReturn

SpecEmbed == InitEmbed /\ [][NextEmbed]_vars

----------------------------------------------------------------------------
(* chunkFile on its own: any content of up to MaxLines lines, each of up to *)
(* CHUNK_SIZE + 1 characters.                                               *)

MaxLines == 4

LineChoices == {Rep("a", n) : n \in 0..(CHUNK_SIZE + 1)}

\* content.split("\n") has at least one element
ChunkContents == UNION {[1..n -> LineChoices] : n \in 1..MaxLines}

InitChunk ==
    /\ fs \in {[p \in Paths |-> IF p = "a.ts" THEN c ELSE Absent] : c \in ChunkContents}
    /\ apiKey = TRUE
    /\ SQL = FALSE
    /\ db = NoDb
    /\ disk = NoFile
    /\ mistral = FALSE
    /\ indexingInProgress = FALSE
    /\ active = 0
    /\ run = IdleRun
    /\ status = "idle"
    /\ tool = IdleTool
    /\ ev = Event("init", "", <<>>)
    /\ hist = <<>>
    /\ cleared = FALSE
    /\ used = {}
    /\ edits = 0
    /\ nu = IdleNu

\* const chunks = chunkFile(file, content)
ChunkCall ==
    /\ ev.op = "init"
    /\ ev' = Event("chunk", "ok", chunkFile("a.ts", fs["a.ts"]))
    /\ UNCHANGED <<nu, fs, apiKey, SQL, db, disk, mistral, indexingInProgress, active, run,
                   status, tool, hist, cleared, used, edits>>

NextChunk == ChunkCall

SpecChunk == InitChunk /\ [][NextChunk]_vars

----------------------------------------------------------------------------
(* The nushell tool: the output of the child process arrives in data       *)
(* events, is kept in a rolling buffer and in a temp file, and is cut to   *)
(* its tail when the process closes. Sizes are scaled; a character is a    *)
(* byte.                                                                   *)

DEFAULT_MAX_BYTES == 4
DEFAULT_MAX_LINES == 2
MaxEvents == 3

\* text.split("\n")
RECURSIVE SplitLines(_)
SplitLines(text) ==
    IF \A k \in 1..Len(text) : text[k] # "LF" THEN <<text>>
    ELSE LET k == CHOOSE j \in 1..Len(text) :
                     text[j] = "LF" /\ \A h \in 1..(j - 1) : text[h] # "LF"
         IN  <<SubSeq(text, 1, k - 1)>> \o SplitLines(SubSeq(text, k + 1, Len(text)))

\* the last n characters of a line
TakeEnd(line, n) == IF Len(line) > n THEN SubSeq(line, Len(line) - n + 1, Len(line)) ELSE line

\* truncateTail's loop from the last line backwards: whole lines are taken
\* while they fit the line and byte limits; a last line that alone exceeds
\* the byte limit is cut to its end
RECURSIVE TailLoop(_, _, _)
TailLoop(lines, i, st) ==
    IF i < 1 \/ Len(st.out) >= DEFAULT_MAX_LINES THEN st
    ELSE LET line == lines[i]
             lineBytes == Len(line) + (IF Len(st.out) > 0 THEN 1 ELSE 0)
         IN  IF st.bytes + lineBytes > DEFAULT_MAX_BYTES
             THEN IF Len(st.out) = 0
                  THEN [out |-> <<TakeEnd(line, DEFAULT_MAX_BYTES)>>,
                        bytes |-> Len(TakeEnd(line, DEFAULT_MAX_BYTES)),
                        by |-> "bytes", partial |-> TRUE]
                  ELSE [st EXCEPT !.by = "bytes"]
             ELSE TailLoop(lines, i - 1,
                           [st EXCEPT !.out = <<line>> \o @, !.bytes = @ + lineBytes])

\* truncateTail(content) of the agent library with its default limits
truncateTail(content) ==
    LET lines == SplitLines(content)
    IN  IF Len(lines) <= DEFAULT_MAX_LINES /\ Len(content) <= DEFAULT_MAX_BYTES
        THEN [content |-> content, truncated |-> FALSE, truncatedBy |-> "",
              totalLines |-> Len(lines), outputLines |-> Len(lines),
              outputBytes |-> Len(content), lastLinePartial |-> FALSE]
        ELSE LET st == TailLoop(lines, Len(lines),
                                [out |-> <<>>, bytes |-> 0, by |-> "lines", partial |-> FALSE])
             IN  [content |-> JoinLines(st.out), truncated |-> TRUE,
                  truncatedBy |-> IF Len(st.out) >= DEFAULT_MAX_LINES
                                     /\ st.bytes <= DEFAULT_MAX_BYTES
                                  THEN "lines" ELSE st.by,
                  totalLines |-> Len(lines), outputLines |-> Len(st.out),
                  outputBytes |-> Len(JoinLines(st.out)), lastLinePartial |-> st.partial]

\* while (chunksBytes > maxChunksBytes && chunks.length > 1) chunks.shift()
RECURSIVE ShiftChunks(_)
ShiftChunks(chunks) ==
    IF Len(Concat(chunks)) > DEFAULT_MAX_BYTES * 2 /\ Len(chunks) > 1
    THEN ShiftChunks(Tail(chunks))
    ELSE chunks

\* the data events a process may emit
DataChoices ==
    {Rep("x", n) : n \in 1..(DEFAULT_MAX_BYTES + 1)} \cup {<<"LF">>, <<"x", "LF">>}

InitNu ==
    /\ fs = [p \in Paths |-> Absent]
    /\ apiKey = TRUE
    /\ SQL = FALSE
    /\ db = NoDb
    /\ disk = NoFile
    /\ mistral = FALSE
    /\ indexingInProgress = FALSE
    /\ active = 0
    /\ run = IdleRun
    /\ status = "idle"
    /\ tool = IdleTool
    /\ ev = Event("init", "", <<>>)
    /\ hist = <<>>
    /\ cleared = FALSE
    /\ used = {}
    /\ edits = 0
    /\ nu = IdleNu

NuFrame ==
    UNCHANGED <<fs, apiKey, SQL, db, disk, mistral, indexingInProgress, active, run,
                status, tool, ev, hist, cleared, used, edits>>

\* execute: spawn("nu", ["-c", command]) and the handlers are attached
NuSpawn ==
    /\ nu.pc = "idle"
    /\ nu' = [nu EXCEPT !.pc = "running"]
    /\ NuFrame

\* handleData(data), for stdout and stderr alike
handleData(data) ==
    /\ nu.pc = "running"
    /\ nu.events < MaxEvents
    /\ LET totalBytes == nu.totalBytes + Len(data)
           create == totalBytes > DEFAULT_MAX_BYTES /\ nu.tempFilePath = Undefined
           path == IF create THEN <<"tmp">> ELSE nu.tempFilePath
           written == IF create THEN Concat(nu.chunks) ELSE nu.tempFile
           chunks == ShiftChunks(Append(nu.chunks, data))
       IN  nu' = [nu EXCEPT !.totalBytes = totalBytes,
                            !.tempFilePath = path,
                            !.tempFile = IF path # Undefined THEN written \o data ELSE written,
                            !.chunks = chunks,
                            !.chunksBytes = Len(Concat(chunks)),
                            !.out = @ \o data,
                            !.events = @ + 1]
    /\ NuFrame

\* child.on("close"): how is "exit", "aborted" or "timedOut"
NuClose(code, how) ==
    /\ nu.pc = "running"
    /\ LET fullOutput == Concat(nu.chunks)
           truncation == truncateTail(fullOutput)
       IN  nu' = [nu EXCEPT
              !.pc = "closed",
              !.result =
                 IF how # "exit"
                 THEN [kind |-> "rejected", why |-> how, content |-> fullOutput,
                       truncated |-> FALSE, truncatedBy |-> "",
                       fullOutputPath |-> Undefined, notePath |-> Undefined]
                 ELSE [kind |-> IF code # 0 THEN "rejected" ELSE "resolved",
                       why |-> "exit",
                       content |-> truncation.content,
                       truncated |-> truncation.truncated,
                       truncatedBy |-> truncation.truncatedBy,
                       fullOutputPath |-> IF truncation.truncated /\ code = 0
                                          THEN nu.tempFilePath ELSE Undefined,
                       notePath |-> IF ~truncation.truncated THEN Undefined
                                    ELSE IF nu.tempFilePath # Undefined THEN nu.tempFilePath
                                    ELSE <<"N/A">>]]
    /\ NuFrame

NextNu ==
    \/ NuSpawn
    \/ \E data \in DataChoices : handleData(data)
    \/ \E code \in {0, 1}, how \in {"exit", "aborted", "timedOut"} : NuClose(code, how)

SpecNu == InitNu /\ [][NextNu]_vars

----------------------------------------------------------------------------
(* Vocabulary of the properties *)

Range(seq) == {seq[k] : k \in 1..Len(seq)}

Min(a, b) == IF a < b THEN a ELSE b

\* a file the collection loop reads and does not skip for size or content
Indexable(c) == c # Absent /\ FileSize(c) <= MAX_FILE_SIZE /\ ~isLikelyBinary(c)

\* the files of a scan whose hash equals the one hash stored for their path
UnchangedAt(files, tree, rows) ==
    {f \in Range(files) : Indexable(tree[f]) /\ StoredHashes(rows, f) = {Hash(tree[f])}}

\* the files of a scan whose hash differs from what is stored for their path
ChangedAt(files, tree, rows) ==
    {f \in Range(files) : /\ Indexable(tree[f])
                          /\ StoredHashes(rows, f) # {}
                          /\ Hash(tree[f]) \notin StoredHashes(rows, f)}

\* the files of a scan the loop counts as skipped when it runs to its end
SkippedAt(files, tree, rows) ==
    {f \in Range(files) : tree[f] # Absent /\ ~Indexable(tree[f])}
        \cup UnchangedAt(files, tree, rows)

\* the stored entries of a path, without their embeddings
EntriesOf(rows, f) ==
    LET own == RowsOf(rows, f)
    IN  [k \in 1..Len(own) |->
            Chunk(own[k].path, own[k].content, own[k].hash, own[k].chunkIndex,
                  own[k].startLine, own[k].endLine)]

\* the batch start indices of a run
BatchStarts(r) == {i \in 0..(Len(r.allChunks) - 1) : i % BATCH_SIZE = 0}

\* the state right after an index run has ended, and that run
JustEnded == ev.op \in {"index", "index-resume"} /\ ev.res \in {"done", "failed"}
Last == hist[Len(hist)]

\* the run a step of the index handler leaves behind
RunAfter == IF Len(hist') > Len(hist) THEN hist'[Len(hist')].run ELSE run'

----------------------------------------------------------------------------
(* Properties *)

\* C1: at most one index run is active; an index command issued while
\* indexingInProgress is true is rejected and changes nothing: no scan, no
\* store or file access, no embedding call, and the flag stays set.
C1_OneRunAtATime ==
    /\ [](active <= 1 /\ (indexingInProgress <=> active = 1))
    /\ [][(indexingInProgress /\ ev'.op = "index")
            => /\ ev'.res = "rejected"
               /\ UNCHANGED <<fs, SQL, db, disk, mistral, indexingInProgress, active,
                              run, hist>>]_vars

C1_Witness == ev.op = "index" /\ ev.res = "rejected" /\ run.pc = "embedding" /\ run.i > 0

\* C2: in every step of an index run, a scanned file whose hash equals the
\* stored hash of its path gets no chunk, none of its text goes to the
\* provider, its stored entries stay as they are, and the collection loop
\* counts it as skipped.
C2_UnchangedFileUntouched ==
    [][ev'.op = "index-resume" =>
        LET U == IF run.pc = "collect" THEN UnchangedAt(run.files, fs, db.rows)
                 ELSE IF run.pc = "embedding"
                 THEN UnchangedAt(run.files, run.fsAt, run.rowsAt)
                 ELSE {}
            r == RunAfter
        IN  /\ \A f \in U :
                /\ RowsOf(db'.rows, f) = RowsOf(db.rows, f)
                /\ \A c \in Range(r.allChunks) : c.path # f
                /\ \A t \in r.sent : t[2] # f
            /\ (run.pc = "collect" /\ ev'.res # "failed") =>
                /\ r.skipped = Cardinality(SkippedAt(run.files, fs, db.rows))
                /\ r.indexed = Len(run.files) - r.skipped
                /\ U \subseteq SkippedAt(run.files, fs, db.rows)]_vars

C2_Witness ==
    /\ JustEnded
    /\ Last.outcome = "done"
    /\ Last.run.calls > 0
    /\ \E f \in UnchangedAt(Last.run.files, Last.run.fsAt, Last.run.rowsAt) :
          RowsOf(db.rows, f) # <<>>

\* C3 as stated: after an index run, every scanned file whose hash differed
\* from the stored one has exactly the entries of chunkFile(new content).
C3_Original ==
    (JustEnded /\ Last.outcome = "done") =>
        \A f \in ChangedAt(Last.run.files, Last.run.fsAt, Last.run.rowsAt) :
            db.open /\ EntriesOf(db.rows, f) = chunkFile(f, Last.run.fsAt[f])

\* two runs in a row over the same tree, the store left alone in between
SameTreeTwice ==
    /\ Len(hist) = 2
    /\ JustEnded
    /\ hist[1].outcome = "done"
    /\ hist[2].outcome = "done"
    /\ hist[1].run.files = hist[2].run.files
    /\ hist[1].run.fsAt = hist[2].run.fsAt
    /\ ~hist[1].run.swapped /\ ~hist[2].run.swapped /\ ~hist[2].run.clearedBefore

\* C4: of two index runs in a row with no file change between them (and no
\* failed batch in either), the second reports 0 files indexed and as many
\* files skipped as the first run's scan found.
C4_Original ==
    (SameTreeTwice /\ hist[1].run.errors = 0 /\ hist[2].run.errors = 0) =>
        /\ hist[2].run.indexed = 0
        /\ hist[2].run.skipped = Len(hist[1].run.files)

\* C5: when the embedding request of a batch fails, an error is reported, no
\* chunk of that batch is persisted, the later batches are still sent, and the
\* run ends with the save and the summary.
RunsInView ==
    IF run.pc = "embedding" THEN {run} ELSE IF JustEnded THEN {Last.run} ELSE {}

C5_FailedBatchDoesNotAbort ==
    /\ \A r \in RunsInView :
        /\ r.errors = Cardinality(r.embedFailed) + Cardinality(r.insertFailed)
        /\ \A i \in r.embedFailed : \A c \in Range(Batch(r.allChunks, i)) :
              \A k \in 1..Len(db.rows) :
                 ~(db.rows[k].path = c.path /\ db.rows[k].chunkIndex = c.chunkIndex
                   /\ db.rows[k].hash = c.hash)
    /\ run.pc = "embedding" => run.calls = (run.i \div BATCH_SIZE) + 1
    /\ \A k \in 1..Len(hist) : hist[k].run.embedFailed # {} =>
        /\ hist[k].outcome = "done"
        /\ hist[k].run.calls = Cardinality(BatchStarts(hist[k].run))
    /\ (JustEnded /\ Last.run.embedFailed # {}) => disk = saveDb(db, disk)

C5_Witness ==
    /\ JustEnded
    /\ Last.outcome = "done"
    /\ 0 \in Last.run.embedFailed
    /\ Last.run.calls > 1
    /\ db.open /\ db.rows # <<>> /\ disk = File(db.rows)

\* C6: after a run in which some batch failed, a later run over the same
\* unchanged files in which every request succeeds leaves every chunk of every
\* indexable file stored with an embedding.
C6_Original ==
    (SameTreeTwice /\ hist[1].run.embedFailed # {} /\ hist[2].run.errors = 0) =>
        \A f \in Range(hist[2].run.files) : Indexable(hist[2].run.fsAt[f]) =>
            /\ EntriesOf(db.rows, f) = chunkFile(f, hist[2].run.fsAt[f])
            /\ \A k \in 1..Len(db.rows) : db.rows[k].path = f => db.rows[k].embedding # <<>>

\* C7: when an INSERT fails during a run, the failure ends the run as failed
\* and no further batch is embedded.
C7_Original ==
    \A k \in 1..Len(hist) :
        LET r == hist[k].run
        IN  r.insertFailed # {} =>
               /\ hist[k].outcome = "failed"
               /\ \A i \in r.insertFailed : r.calls <= (i \div BATCH_SIZE) + 1

\* C8: without the credential an index run fails before any scan, any change
\* of the store's entries and any write of the backing file; semantic_search
\* and find_similar return an error without a query on the store or an
\* embedding request.
C8_MissingCredentialFatal ==
    /\ [](~apiKey =>
            /\ run.pc \in {"idle", "opening"}
            /\ tool.pc \in {"idle", "opening"}
            /\ \A k \in 1..Len(hist) :
                  /\ hist[k].outcome = "failed"
                  /\ ~hist[k].run.scanned
                  /\ hist[k].run.calls = 0
            /\ ev.op \in {"search", "similar"} => ev.res \in {"suspended", "error", "usage"})
    /\ [][(~apiKey /\ ev'.op \in {"index", "index-resume", "search", "similar"}) =>
            /\ disk' = disk
            /\ db'.rows = db.rows \/ (~db.open /\ db' = initDb(disk))]_vars

C8_Witness ==
    /\ ~apiKey
    /\ disk.exists /\ disk.rows # <<>>
    /\ Len(hist) = 1
    /\ ev.op = "search" /\ ev.res = "error"

\* a tool has just returned a list or the no-data signal
ToolAnswered == ev.op \in {"search", "similar"} /\ ev.res \in {"list", "null"}

\* the stored rows the search of the last tool call did not exclude
Eligible ==
    LET Keep(row) == ev.val.exclude = Undefined \/ <<row.path>> # ev.val.exclude
    IN  SelectSeq(db.rows, Keep)

Descending(list) ==
    \A k \in 1..(Len(list) - 1) : ~ScoreLess(list[k].score, list[k + 1].score)

\* C9: for every store, query and requested limit K the returned list is
\* sorted by descending score, has at most K elements and exactly
\* min(K, number of non-excluded embedded entries) elements.
C9_Original ==
    (ToolAnswered /\ ev.res = "list") =>
        /\ Descending(ev.val.list)
        /\ Len(ev.val.list) <= ev.val.requested
        /\ Len(ev.val.list) = Min(ev.val.requested, Len(Eligible))

\* C10: a search on a store with no embedded row returns null; an empty list
\* is returned only when the store has embedded rows and all of them are
\* excluded or cut by the limit; null is returned in no other case.
C10_NoDataSignal ==
    ToolAnswered =>
        /\ (~db.open \/ EmbeddedRows(db.rows) = <<>>) <=> ev.res = "null"
        /\ ev.res = "null" => ev.val.list = <<>>
        /\ (ev.res = "list" /\ ev.val.list = <<>>) =>
              /\ EmbeddedRows(db.rows) # <<>>
              /\ Eligible = <<>> \/ ev.val.requested < 0

C10_Witness ==
    /\ ev.op = "search" /\ ev.res = "null"
    /\ db.open /\ db.rows = <<>>

\* C11: find_similar with file = f returns no result whose stored path is f;
\* with exactly two stored files of one chunk each, f and one other, and no
\* limit (or a positive one) the other file's entry is the only result.
C11_SelfExclusion ==
    (ev.op = "similar" /\ ev.res = "list" /\ ev.val.exclude # Undefined) =>
        /\ \A k \in 1..Len(ev.val.list) : <<ev.val.list[k].path>> # ev.val.exclude
        /\ (/\ Len(db.rows) = 2
            /\ {<<db.rows[k].path>> : k \in 1..2} = {ev.val.exclude, <<"b.ts">>}
            /\ ev.val.exclude # <<"b.ts">>
            /\ ev.val.requested >= 0) =>
              /\ Len(ev.val.list) = 1
              /\ ev.val.list[1].path = "b.ts"
              /\ \E k \in 1..2 : /\ db.rows[k].path = "b.ts"
                                 /\ ev.val.list[1].content = db.rows[k].content
                                 /\ ev.val.list[1].startLine = db.rows[k].startLine
                                 /\ ev.val.list[1].endLine = db.rows[k].endLine

C11_Witness ==
    /\ ev.op = "similar" /\ ev.res = "list"
    /\ ev.val.exclude = <<"a.ts">>
    /\ ev.val.requested = 0
    /\ Len(db.rows) = 2
    /\ {db.rows[k].path : k \in 1..2} = {"a.ts", "b.ts"}
    /\ Len(ev.val.list) = 1

\* C12: find_similar with neither file nor code returns the usage error, and
\* that step opens no store, loads nothing, creates no client and leaves no
\* embedding request or search pending; a call that goes on has a text.
C12_UsageErrorFailsFast ==
    [][(tool.pc = "idle" /\ ev'.op = "similar") =>
          /\ ev'.res = "usage" =>
                UNCHANGED <<db, SQL, disk, mistral, tool, run, hist, fs, status>>
          /\ ev'.res = "suspended" => tool'.text # <<>>
          /\ ev'.res \in {"usage", "suspended", "error"}]_vars

C12_Witness ==
    /\ ev.op = "similar" /\ ev.res = "usage"
    /\ ev.val.file = Undefined /\ ev.val.code = Undefined
    /\ ~db.open /\ ~mistral /\ apiKey

\* C13: an index-status issued after an index-clear reports 0 files, 0 chunks
\* and 0 bytes, whatever the store held and whatever other handler ran
\* around the two commands.
C13_Original ==
    [][("clear" \in used /\ status = "idle" /\ ev'.op = "status" /\ ev'.res = "ok")
          => ev'.val = [files |-> 0, chunks |-> 0, totalSize |-> 0]]_vars

\* C14: embed either returns exactly one vector per text, vector i being the
\* embedding of text i, or fails for the whole call; never a shorter or
\* shifted list.
C14_Original ==
    (ev.op = "embed" /\ ev.res = "ok") =>
        /\ Len(ev.val.list) = Len(ev.val.texts)
        /\ \A i \in 1..Len(ev.val.list) :
              ev.val.list[i] = EmbedModel(SafeText(ev.val.texts[i]))

\* chunkFile has been applied to the content of a.ts
Chunked == ev.op = "chunk"

\* C15: every chunk of chunkFile has a content of at most CHUNK_SIZE
\* characters, also when a source line is longer than CHUNK_SIZE.
C15_ChunkSizeBound ==
    Chunked => \A k \in 1..Len(ev.val) : Len(ev.val[k].content) <= CHUNK_SIZE

C15_Witness ==
    /\ Chunked
    /\ \E j \in 1..Len(fs["a.ts"]) : j > 1 /\ Len(fs["a.ts"][j]) > CHUNK_SIZE
    /\ Len(ev.val) > 1

\* C16: the chunks of chunkFile have chunkIndex 0..n-1 in order; the first
\* starts at line 1, each next one starts on the line after the end of the
\* one before, and startLine <= endLine in every chunk.
C16_ChunkRanges ==
    Chunked =>
        /\ \A k \in 1..Len(ev.val) :
              /\ ev.val[k].chunkIndex = k - 1
              /\ ev.val[k].startLine <= ev.val[k].endLine
              /\ ev.val[k].endLine <= Len(fs["a.ts"])
        /\ Len(ev.val) > 0 => ev.val[1].startLine = 1
        /\ \A k \in 1..(Len(ev.val) - 1) : ev.val[k + 1].startLine = ev.val[k].endLine + 1

C16_Witness ==
    /\ Chunked
    /\ Len(ev.val) = 3
    /\ ev.val[2].endLine > ev.val[2].startLine

\* C17: for every content with no line longer than CHUNK_SIZE, the contents
\* of the chunks joined in order with the line separator are the content.
C17_Original ==
    (Chunked /\ \A j \in 1..Len(fs["a.ts"]) : Len(fs["a.ts"][j]) <= CHUNK_SIZE) =>
        JoinLines([k \in 1..Len(ev.val) |-> ev.val[k].content]) = JoinLines(fs["a.ts"])

\* C18: a content of two lines, each ended by a newline, is chunked into
\* exactly one chunk with startLine 1 and endLine 2.
C18_Original ==
    (Chunked /\ fs["a.ts"] = << <<"a">>, <<"a">>, <<>> >>) =>
        /\ Len(ev.val) = 1
        /\ ev.val[1].startLine = 1
        /\ ev.val[1].endLine = 2

\* no two rows with the same (path, chunkIndex)
UniqueKeys(rows) ==
    \A j, k \in 1..Len(rows) :
        (rows[j].path = rows[k].path /\ rows[j].chunkIndex = rows[k].chunkIndex) => j = k

\* C19: in every reachable state no two stored entries have the same
\* (path, chunkIndex), and no batch of an index run attempts an insert that
\* collides with a stored (path, chunkIndex): with the store open, the INSERT
\* loop of a batch never fails.
C19_Original ==
    /\ [](UniqueKeys(db.rows) /\ UniqueKeys(disk.rows))
    /\ [][(run.pc = "embedding" /\ ev'.op = "index-resume" /\ db.open)
            => RunAfter.insertFailed = run.insertFailed]_vars

\* the positions in allChunks of the chunks whose batch was embedded and
\* inserted without error
PersistedBy(r) ==
    {k \in 1..Len(r.allChunks) :
        ((k - 1) \div BATCH_SIZE) * BATCH_SIZE \notin (r.embedFailed \cup r.insertFailed)}

\* C20: the chunk count in the summary of an index run is the number of
\* chunks embedded and persisted during that run, and the indexed-file count
\* covers only files whose chunks were persisted.
C20_Original ==
    (JustEnded /\ Last.outcome = "done" /\ ~Last.run.swapped) =>
        /\ Summary(Last.run).chunks = Cardinality(PersistedBy(Last.run))
        /\ Summary(Last.run).indexed > 0 =>
              \A k \in 1..Len(Last.run.allChunks) : k \in PersistedBy(Last.run)

\* C21: when the caller's abort signal has fired while the embedding request
\* of semantic_search or find_similar is in flight, the call returns no
\* search result computed from that request.
C21_Original ==
    [][(tool.pc = "embedding" /\ tool.aborted /\ ev'.op \in {"search", "similar"})
          => ev'.res \notin {"list", "null"}]_vars

\* C22: a scanned file that is oversized, looks binary or can no longer be
\* stat-ed or read is counted as skipped, its stored entries stay, and the
\* run goes on: with the store open the collection loop never ends the run
\* as failed.
C22_Original ==
    [][(run.pc = "collect" /\ ev'.op = "index-resume" /\ db.open) =>
          /\ ev'.res # "failed"
          /\ \A f \in Range(run.files) : ~Indexable(fs[f]) =>
                RowsOf(db'.rows, f) = RowsOf(db.rows, f)
          /\ RunAfter.skipped >= Cardinality({f \in Range(run.files) : ~Indexable(fs[f])})]_vars

\* the nushell process has closed and the tool call resolved with a result
NuResolved == nu.pc = "closed" /\ nu.result.kind = "resolved"

\* C23: whenever the result of the nushell tool is reported as truncated, a
\* temp file holding the full output exists and its path is given in
\* details.fullOutputPath and in the result text.
C23_Original ==
    (NuResolved /\ nu.result.truncated) =>
        /\ nu.result.fullOutputPath # Undefined
        /\ nu.result.notePath = nu.result.fullOutputPath
        /\ nu.tempFile = nu.out

\* C24: the text returned on close is the tail of the complete output of the
\* process, cut to the last DEFAULT_MAX_LINES lines or DEFAULT_MAX_BYTES
\* bytes; whenever earlier output is missing from it the result is marked
\* truncated.
C24_Original ==
    NuResolved =>
        /\ nu.result.content = truncateTail(nu.out).content
        /\ nu.result.content # nu.out => nu.result.truncated

\* a step of the index handler that ends the run, and how it ended
RunEnds == Len(hist') > Len(hist)
EndedAs == hist'[Len(hist')].outcome

\* C25: the backing file is written exactly once per index run, by the step
\* that ends the run after its last batch; a run that ends with a fatal
\* error and a step that leaves the run suspended write nothing, and nothing
\* but a completed run writes the file (index-clear removes it), so the file
\* equals the store at the end of the last completed run or is absent.
C25_Original ==
    [][/\ (RunEnds /\ EndedAs = "done") => disk' = File(db'.rows)
       /\ (RunEnds /\ EndedAs = "failed") => disk' = disk
       /\ (disk' # disk) => \/ RunEnds /\ EndedAs = "done"
                            \/ disk' = NoFile]_vars

\* all rows of one path carry one content hash
OneHashPerPath(rows) ==
    \A j, k \in 1..Len(rows) : rows[j].path = rows[k].path => rows[j].hash = rows[k].hash

\* C26: in every state of the store another handler can observe, also while
\* an index run is suspended in an embedding request, all entries of one
\* path have the same content hash.
C26_Original == OneHashPerPath(db.rows)

\* C27: the in-flight guard is always released: a run that has started
\* eventually ends when every await settles, and the step that ends it, by
\* success, after batch failures or by a fatal error, leaves
\* indexingInProgress false, so that the next index request passes the guard.
C27_GuardReleased ==
    /\ indexingInProgress ~> ~indexingInProgress
    /\ [][RunEnds => ~indexingInProgress' /\ ~InFlightGuard']_vars
    /\ [](indexingInProgress <=> run.pc # "idle")

C27_Witness ==
    /\ Len(hist) = 2
    /\ hist[1].outcome = "failed"
    /\ hist[2].outcome = "done"
    /\ hist[2].run.errors > 0
    /\ ~indexingInProgress

\* a stored row of path p is gone after the step
Lost(p) ==
    \E k \in 1..Len(db.rows) :
        db.rows[k].path = p /\ db.rows[k] \notin Range(db'.rows)

\* C28: a step of an index run removes stored entries only in the collection
\* loop and only of a path that is in the current scan, passes the size and
\* binary checks and has a stored hash different from the file's; the
\* entries of every other path, of files that are gone from the disk too,
\* stay as they are.
C28_DeletesOnlyChanged ==
    [][(run.pc # "idle" /\ ev'.op = "index-resume") =>
          \A p \in Paths : Lost(p) =>
              /\ run.pc = "collect"
              /\ p \in Range(run.files)
              /\ Indexable(fs[p])
              /\ \E h \in StoredHashes(db.rows, p) : h # Hash(fs[p])]_vars

C28_Witness ==
    /\ JustEnded /\ Last.outcome = "done"
    /\ Last.run.fsAt["a.ts"] = Absent
    /\ Last.run.indexed > 0
    /\ db.open
    /\ RowsOf(db.rows, "a.ts") # <<>>
    /\ RowsOf(db.rows, "b.ts") # <<>>

\* the files of an ended run that were changed when its collection loop ran
\* and whose new chunks all lie in batches that failed
ChangedAndFailed(r) ==
    {f \in ChangedAt(r.files, r.fsAt, r.rowsAt) :
        \A k \in 1..Len(r.allChunks) : r.allChunks[k].path = f => k \notin PersistedBy(r)}

\* C29: the collection loop deletes the old entries of a changed file before
\* the run sends its first embedding request; when every batch that holds
\* the file's new chunks then fails, the file has no entry in the store at
\* the end of the run and the saved file holds none of its old entries.
C29_Original ==
    /\ [][(run.pc = "collect" /\ ev'.op = "index-resume" /\ ev'.res # "failed") =>
            /\ run.calls = 0
            /\ \A f \in ChangedAt(run.files, fs, db.rows) : RowsOf(db'.rows, f) = <<>>]_vars
    /\ []((JustEnded /\ Last.outcome = "done") =>
            \A f \in ChangedAndFailed(Last.run) :
                RowsOf(db.rows, f) = <<>> /\ RowsOf(disk.rows, f) = <<>>)

\* a stored row holds the chunk c
Holds(rows, c) ==
    \E k \in 1..Len(rows) :
        /\ rows[k].path = c.path
        /\ rows[k].chunkIndex = c.chunkIndex
        /\ rows[k].hash = c.hash

\* C30: when index-clear has run while the index run was suspended in an
\* embedding request, then, whatever index-status or search call reopened
\* the store meanwhile, once the run has ended no chunk of that run is in
\* the store or in the backing file, and the guard is released.
C30_Original ==
    (JustEnded /\ Last.run.clearedAt = "embedding") =>
        /\ \A c \in Range(Last.run.allChunks) : ~Holds(db.rows, c) /\ ~Holds(disk.rows, c)
        /\ ~indexingInProgress

====
